---- MODULE Spec2Model ----
(***************************************************************************)
(* NodeCache: a caching proxy in front of a JSON-RPC node.                 *)
(*                                                                         *)
(* One cacheWorker goroutine per cacheable method polls the node and       *)
(* stores the parsed response in cacheResponse under the RWMutex mu.       *)
(* HandleRequest answers a client from cacheResponse when it can and       *)
(* forwards the request to the node otherwise.                             *)
(*                                                                         *)
(* An optional value (a JSON field that may be missing, a nil interface,   *)
(* a nil error) is a sequence of length 0 or 1.                            *)
(***************************************************************************)
EXTENDS Integers, Sequences, FiniteSets, TLC

Absent == <<>>
Some(v) == <<v>>

\* Largest correlation identifier a client puts in a request.
MaxId == 1

\* http.StatusOK, the only status callMethod accepts.
StatusOK == 200

\* The method names a client may put in a request.
AllMethods == {"eth_gasPrice", "eth_blockNumber", "eth_call"}

(***************************************************************************)
(* Bytes on the wire.                                                      *)
(***************************************************************************)

\* A request body: a JSON object with the fields of JSONRPCMessage (each
\* possibly missing), a JSON text that does not decode into JSONRPCMessage
\* (a field of another type, such as a string id or non-string params), or
\* bytes that are no JSON at all.
RequestObject(id, method) ==
    [kind |-> "object", jsonrpc |-> Some("2.0"), id |-> id, method |-> method]

MistypedRequest(method) ==
    [kind |-> "mistyped", jsonrpc |-> Some("2.0"), id |-> Absent, method |-> Some(method)]

GarbageRequest ==
    [kind |-> "garbage", jsonrpc |-> Absent, id |-> Absent, method |-> Absent]

CallerIds == 0 .. MaxId

RequestBodies ==
    {RequestObject(id, Some(m)) : id \in {Absent} \cup {Some(i) : i \in CallerIds},
                                  m \in AllMethods}
      \cup {MistypedRequest("eth_gasPrice")}
      \cup {GarbageRequest}

\* A response body: a JSON object with the fields of JSONRPCResponse (each
\* possibly missing) or bytes that do not decode into JSONRPCResponse.
ResponseObject(jsonrpc, id, result) ==
    [kind |-> "object", jsonrpc |-> jsonrpc, id |-> id, result |-> result]

GarbageResponse ==
    [kind |-> "garbage", jsonrpc |-> Absent, id |-> Absent, result |-> Absent]

\* What the node answers with status 200: a result without an id (the
\* worker's request carries none), a result with an id, an error object
\* (no result field), and bytes that do not parse.
NodeObjects ==
    { ResponseObject(Some("2.0"), Absent, Some("0x1")),
      ResponseObject(Some("2.0"), Some(1), Some("0x2")),
      ResponseObject(Some("2.0"), Some(1), Absent) }

NodeBodies == NodeObjects \cup {GarbageResponse}

(***************************************************************************)
(* JSONRPCMessage, JSONRPCResponse and encoding/json on them.              *)
(***************************************************************************)

\* The zero value of JSONRPCMessage.
ZeroMessage == [Version |-> "", ID |-> 0, Method |-> ""]

\* An Unmarshal whose type errors go unnoticed: the fields that fit are
\* filled and the message counts as parsed.
UnmarshalMessageLenient(body) ==
    IF body.kind = "garbage"
    THEN [err |-> TRUE, message |-> ZeroMessage]
    ELSE [err |-> FALSE,
          message |-> [Version |-> IF body.jsonrpc = Absent THEN "" ELSE body.jsonrpc[1],
                       ID      |-> IF body.id = Absent THEN 0 ELSE body.id[1],
                       Method  |-> IF body.method = Absent THEN "" ELSE body.method[1]]]

\* json.Unmarshal(body, &message): a missing field leaves the zero value.
UnmarshalMessage(body) ==
    IF body.kind # "object"
    THEN [err |-> TRUE, message |-> ZeroMessage]
    ELSE [err |-> FALSE,
          message |-> [Version |-> IF body.jsonrpc = Absent THEN "" ELSE body.jsonrpc[1],
                       ID      |-> IF body.id = Absent THEN 0 ELSE body.id[1],
                       Method  |-> IF body.method = Absent THEN "" ELSE body.method[1]]]

\* The zero value of JSONRPCResponse; Result is an interface{} (nil = Absent).
ZeroResponse == [Version |-> "", ID |-> 0, Result |-> Absent]

\* json.Unmarshal(resp, &jsonRPCResponse).
UnmarshalResponse(body) ==
    IF body.kind # "object"
    THEN [err |-> TRUE, response |-> ZeroResponse]
    ELSE [err |-> FALSE,
          response |-> [Version |-> IF body.jsonrpc = Absent THEN "" ELSE body.jsonrpc[1],
                        ID      |-> IF body.id = Absent THEN 0 ELSE body.id[1],
                        Result  |-> body.result]]

\* json.Marshal(jsonRPCResponse): every field is tagged omitempty, so an
\* empty Version, an ID of 0 and a nil Result are left out of the object.
MarshalResponse(r) ==
    ResponseObject(IF r.Version = "" THEN Absent ELSE Some(r.Version),
                   IF r.ID = 0 THEN Absent ELSE Some(r.ID),
                   r.Result)

(***************************************************************************)
(* The node (upstream) as seen through nc.client.Do.                       *)
(***************************************************************************)

\* What one call to the node comes back with: client.Do fails (doErr), or
\* it yields a status and a body, and reading the body may fail (readErr).
NodeOutcome(doErr, status, readErr, body) ==
    [doErr |-> doErr, status |-> status, readErr |-> readErr, body |-> body]

NodeOutcomes ==
    {NodeOutcome(TRUE, 0, FALSE, GarbageResponse)}
      \cup {NodeOutcome(FALSE, s, FALSE, GarbageResponse) : s \in {404, 500}}
      \cup {NodeOutcome(FALSE, StatusOK, TRUE, GarbageResponse)}
      \cup {NodeOutcome(FALSE, StatusOK, FALSE, b) : b \in NodeBodies}

\* A Go (value, error) pair: exactly one of the two is set.
Return(bytes, err) == [bytes |-> bytes, err |-> err]

Error(kind, code) == Some([kind |-> kind, code |-> code])

NoReturn == Return(Absent, Absent)

\* A callMethod that reads and returns the body whatever the status.
callMethodAnyStatus(o) ==
    IF o.doErr
    THEN Return(Absent, Error("transport", 0))
    ELSE IF o.readErr
         THEN Return(Absent, Error("readbody", 0))
         ELSE Return(Some(o.body), Absent)

\* callMethod, once client.Do has returned with outcome o.
callMethod(o) ==
    IF o.doErr
    THEN Return(Absent, Error("transport", 0))
    ELSE IF o.status = StatusOK
         THEN IF o.readErr
              THEN Return(Absent, Error("readbody", 0))
              ELSE Return(Some(o.body), Absent)
         ELSE Return(Absent, Error("status", o.status))

(***************************************************************************)
(* State.                                                                  *)
(***************************************************************************)
VARIABLES
    cacheMethods,   \* the registry of cacheable methods: a package variable the
                    \* source declares empty and the deployment fills before
                    \* NewNodeCache; run() starts one cacheWorker for each
    endpoint,       \* whether os.Getenv("NODE_ENDPOINT") is a URL http.NewRequest accepts
    cacheResponse,  \* nc.cacheResponse: a map, DOMAIN cacheResponse = its keys
    mu,             \* nc.mu: w = the writer past rw.w, readers = holders of the
                    \* read lock, blocked = readers waiting in RLock
    worker,         \* per cacheable method, its cacheWorker goroutine
    ticker,         \* per worker, the ticks buffered in ticker.C (capacity 1)
    client,         \* per inbound request goroutine, its HandleRequest call
    completed       \* history: per method name, what the latest cycle that ran
                    \* to the end of SetCacheResponse had unmarshalled from the
                    \* bytes its callMethod returned (Absent: no such cycle yet)

vars == <<cacheMethods, endpoint, cacheResponse, mu, worker, ticker, client, completed>>

\* The map with no key.
EmptyMap == [k \in {} |-> ZeroResponse]

\* v, ok := m[key], as an optional value.
Lookup(map, key) == IF key \in DOMAIN map THEN Some(map[key]) ELSE Absent

\* m[key] = value.
Store(map, key, value) ==
    [k \in DOMAIN map \cup {key} |-> IF k = key THEN value ELSE map[k]]

\* cacheWorker is at: "start" (top of the loop), "calling" (client.Do in
\* flight), "hung" (client.Do in flight, the node will never answer),
\* "lockw" (in mu.Lock, waiting for the writer mutex), "drain" (in mu.Lock,
\* waiting for the readers to leave), "locked" (holds mu, assigning to the
\* map), "tick" (<-ticker.C).
WorkerPcs == {"start", "calling", "hung", "lockw", "drain", "locked", "tick"}

\* resp: what callMethod returned in this cycle; jsonRPCResponse: what it
\* was unmarshalled to.  Both are dead outside SetCacheResponse and are
\* kept at their zero values there.  last: while the worker waits for the
\* tick, how the cycle before the wait ended: "request" (no request could
\* be built), "call" (callMethod returned an error), "parse" (the bytes did
\* not unmarshal), "stored"; "" elsewhere.
WorkerState(pc, resp, response, last) ==
    [pc |-> pc, resp |-> resp, jsonRPCResponse |-> response, last |-> last]

AtRest(pc, last) == WorkerState(pc, NoReturn, ZeroResponse, last)

\* HandleRequest is at: "idle" (no request), "rblocked" (in mu.RLock,
\* waiting), "rlocked" (holds the read lock), "calling", "hung", "done"
\* (returned to its caller).
ClientPcs == {"idle", "rblocked", "rlocked", "calling", "hung", "done"}

\* body: the inbound bytes; message: the decoded request; atStart: the entry
\* of message.Method when GetCacheResponse was called; since: the entries
\* stored for message.Method while GetCacheResponse was waiting or reading;
\* looked, got: whether the map was read and what the read gave; calls: the
\* calls to the node made for this request; sent: the bytes of the last
\* one; reply: what the node did with it; ret: what HandleRequest returned.
IdleClient ==
    [pc |-> "idle", body |-> GarbageRequest, message |-> ZeroMessage,
     atStart |-> Absent, since |-> {}, looked |-> FALSE, got |-> Absent,
     calls |-> 0, sent |-> Absent, reply |-> Absent, ret |-> NoReturn]

TypeOK ==
    /\ cacheMethods \subseteq AllMethods
    /\ endpoint \in BOOLEAN
    /\ DOMAIN cacheResponse \subseteq AllMethods \cup {""}
    /\ mu.w \in {Absent} \cup {Some(m) : m \in cacheMethods}
    /\ mu.readers \subseteq DOMAIN client
    /\ mu.blocked \subseteq DOMAIN client
    /\ DOMAIN worker = cacheMethods
    /\ \A m \in cacheMethods : worker[m].pc \in WorkerPcs /\ ticker[m] \in 0 .. 1
    /\ \A c \in DOMAIN client : client[c].pc \in ClientPcs /\ client[c].calls \in 0 .. 1
    /\ DOMAIN completed = AllMethods \cup {""}

\* NewNodeCache in a deployment that registers `registry` and serves
\* requests on the goroutines `clients`: an empty map, an unlocked mutex, one
\* worker per registered method at the top of its loop with a fresh ticker.
NewNodeCache(registry, clients) ==
    /\ cacheMethods = registry
    /\ endpoint \in BOOLEAN
    /\ cacheResponse = EmptyMap
    /\ mu = [w |-> Absent, readers |-> {}, blocked |-> {}]
    /\ worker = [m \in registry |-> AtRest("start", "")]
    /\ ticker = [m \in registry |-> 0]
    /\ client = [c \in clients |-> IdleClient]
    /\ completed = [m \in AllMethods \cup {""} |-> Absent]

(***************************************************************************)
(* sync.RWMutex.                                                           *)
(***************************************************************************)

\* A read lock that ignores writers.
RLockAlwaysGranted(m) == TRUE

\* A read lock that admits one reader at a time, as a plain Mutex would.
RLockExclusive(m) == m.w = Absent /\ m.readers = {}

\* RLock returns at once unless a writer has announced itself (it holds the
\* lock or waits for the readers to leave); otherwise the reader sleeps.
RLockGranted(m) == m.w = Absent

\* Lock first takes the writer mutex rw.w, which one writer has at a time.
WriterMutexFree(m) == m.w = Absent

\* Having announced itself, the writer owns the lock once no reader holds it.
ReadersGone(m) == m.readers = {}

\* RLock by client c.
RLock(m, c) ==
    IF RLockGranted(m)
    THEN [m EXCEPT !.readers = @ \cup {c}]
    ELSE [m EXCEPT !.blocked = @ \cup {c}]

\* RUnlock by client c.
RUnlock(m, c) == [m EXCEPT !.readers = @ \ {c}]

\* An Unlock that lets the sleeping readers in and keeps rw.w.
UnlockKeepingWriterMutex(m) ==
    [w |-> m.w, readers |-> m.readers \cup m.blocked, blocked |-> {}]

\* Unlock: the sleeping readers are let in, then rw.w is released.
Unlock(m) == [w |-> Absent, readers |-> m.readers \cup m.blocked, blocked |-> {}]

\* The map is being assigned to by some worker.
MapBusy == \E m \in cacheMethods : worker[m].pc = "locked"

\* Every value of type JSONRPCResponse the model's data can make up.
AnyResponse ==
    [Version : {"", "2.0"}, ID : 0 .. MaxId,
     Result : {Absent} \cup {b.result : b \in NodeObjects}]

\* A read that finds no entry, whatever the map holds.
MapReadNothing(key) == {Absent}

\* What reading cacheResponse[key] can give.  A read that runs while
\* another goroutine assigns to the map is a data race: it may give the old
\* entry, the new one, a mix of fields or no entry.
MapRead(key) ==
    IF MapBusy
    THEN {Absent} \cup {Some(r) : r \in AnyResponse}
    ELSE {Lookup(cacheResponse, key)}

(***************************************************************************)
(* HandleRequest.                                                          *)
(***************************************************************************)

\* A HandleRequest that returns the lookup's error for a registered method
\* instead of forwarding the request.
ForwardUnlessCacheable(cl) ==
    IF endpoint /\ cl.message.Method \notin cacheMethods
    THEN [cl EXCEPT !.pc = "calling", !.calls = @ + 1, !.sent = Some(cl.body)]
    ELSE [cl EXCEPT !.pc = "done", !.ret = Return(Absent, Error("newrequest", 0))]

\* A forward path that sends the decoded message, marshalled again, in
\* place of the inbound bytes.
ForwardRemarshalled(cl) ==
    IF endpoint
    THEN [cl EXCEPT !.pc = "calling", !.calls = @ + 1,
                    !.sent = Some(RequestObject(
                        IF cl.message.ID = 0 THEN Absent ELSE Some(cl.message.ID),
                        IF cl.message.Method = "" THEN Absent ELSE Some(cl.message.Method)))]
    ELSE [cl EXCEPT !.pc = "done", !.ret = Return(Absent, Error("newrequest", 0))]

\* A HandleRequest that returns the lookup's error to the caller when the
\* method is not a registered one.
ForwardOnlyRegistered(cl) ==
    IF cl.looked /\ cl.message.Method \notin cacheMethods
    THEN [cl EXCEPT !.pc = "done", !.ret = Return(Absent, Error("unsupported", 0))]
    ELSE IF endpoint
    THEN [cl EXCEPT !.pc = "calling", !.calls = @ + 1, !.sent = Some(cl.body)]
    ELSE [cl EXCEPT !.pc = "done", !.ret = Return(Absent, Error("newrequest", 0))]

\* The forward path of HandleRequest from "reassign again" on: cloneRequest
\* builds the outbound request around the inbound bytes, and callMethod
\* sends it; a NODE_ENDPOINT that NewRequest rejects ends the request.
Forward(cl) ==
    IF endpoint
    THEN [cl EXCEPT !.pc = "calling", !.calls = @ + 1, !.sent = Some(cl.body)]
    ELSE [cl EXCEPT !.pc = "done", !.ret = Return(Absent, Error("newrequest", 0))]

\* A HandleRequest that goes on to forward although the lookup succeeded.
CacheHitThenForward(cl, entry) == Forward(cl)

\* The hit path of GetCacheResponse: the entry is copied, the copy takes the
\* caller's ID and is marshalled.
CacheHit(cl, entry) ==
    [cl EXCEPT !.pc = "done",
               !.ret = Return(Some(MarshalResponse([entry EXCEPT !.ID = cl.message.ID])),
                              Absent)]

\* HandleRequest is called with a request whose body is `body`; readOK says
\* whether ioutil.ReadAll(req.Body) succeeds.  It runs to its first blocking
\* point: the return of the read error, mu.RLock in GetCacheResponse when
\* the body parses, the call to the node when it does not.
HandleRequest(c, body, readOK) ==
    /\ client[c].pc = "idle"
    /\ LET u  == UnmarshalMessage(body)
           cl == [client[c] EXCEPT !.body = body]
       IN  IF ~readOK
           THEN /\ client' = [client EXCEPT ![c] =
                       [cl EXCEPT !.pc = "done",
                                  !.ret = Return(Absent, Error("inbound", 0))]]
                /\ mu' = mu
           ELSE IF ~u.err
           THEN /\ client' = [client EXCEPT ![c] =
                       [cl EXCEPT !.pc = IF RLockGranted(mu) THEN "rlocked" ELSE "rblocked",
                                  !.message = u.message,
                                  !.atStart = Lookup(cacheResponse, u.message.Method)]]
                /\ mu' = RLock(mu, c)
           ELSE /\ client' = [client EXCEPT ![c] = Forward(cl)]
                /\ mu' = mu
    /\ UNCHANGED <<cacheMethods, endpoint, completed, cacheResponse, worker, ticker>>

\* GetCacheResponse under the read lock, and what HandleRequest does with
\* its result: a found entry is returned to the caller, the error for a
\* missing one sends the request down the forward path.
GetCacheResponse(c) ==
    /\ client[c].pc = "rlocked"
    /\ \E found \in MapRead(client[c].message.Method) :
         LET cl == [client[c] EXCEPT !.looked = TRUE, !.got = found]
         IN  client' = [client EXCEPT ![c] =
                 IF found # Absent THEN CacheHit(cl, found[1]) ELSE Forward(cl)]
    /\ mu' = RUnlock(mu, c)
    /\ UNCHANGED <<cacheMethods, endpoint, completed, cacheResponse, worker, ticker>>

\* A HandleRequest that saves what a successful forward returned.
ForwardReplyCaching(c, o) ==
    /\ client[c].pc = "calling"
    /\ client' = [client EXCEPT ![c] =
           [@ EXCEPT !.pc = "done", !.reply = Some(o), !.ret = callMethod(o)]]
    /\ cacheResponse' =
           IF callMethod(o).err = Absent /\ ~UnmarshalResponse(callMethod(o).bytes[1]).err
           THEN Store(cacheResponse, client[c].message.Method,
                      UnmarshalResponse(callMethod(o).bytes[1]).response)
           ELSE cacheResponse
    /\ UNCHANGED <<cacheMethods, endpoint, completed, mu, worker, ticker>>

\* The node answers the forwarded request; callMethod and HandleRequest
\* return what it gave.
ForwardReply(c, o) ==
    /\ client[c].pc = "calling"
    /\ client' = [client EXCEPT ![c] =
           [@ EXCEPT !.pc = "done", !.reply = Some(o), !.ret = callMethod(o)]]
    /\ UNCHANGED <<cacheMethods, endpoint, completed, cacheResponse, mu, worker, ticker>>

\* The node stops answering the forwarded request for good.
ForwardHang(c) ==
    /\ client[c].pc = "calling"
    /\ client' = [client EXCEPT ![c] = [@ EXCEPT !.pc = "hung"]]
    /\ UNCHANGED <<cacheMethods, endpoint, completed, cacheResponse, mu, worker, ticker>>

\* The caller has its answer; the goroutine is free for the next request.
Finish(c) ==
    /\ client[c].pc = "done"
    /\ client' = [client EXCEPT ![c] = IdleClient]
    /\ UNCHANGED <<cacheMethods, endpoint, completed, cacheResponse, mu, worker, ticker>>

(***************************************************************************)
(* cacheWorker.                                                            *)
(***************************************************************************)

\* A cycle that does not `continue` after an unmarshal error and stores the
\* response as far as it was filled.
CycleResultIgnoringParseError(ret) ==
    IF ret.err # Absent
    THEN [store |-> FALSE, response |-> ZeroResponse]
    ELSE [store |-> TRUE, response |-> UnmarshalResponse(ret.bytes[1]).response]

\* What a cycle does with the return of callMethod: an error, or bytes that
\* do not unmarshal, end the cycle; otherwise the unmarshalled response is
\* handed to SetCacheResponse.
CycleResult(ret) ==
    IF ret.err # Absent
    THEN [store |-> FALSE, response |-> ZeroResponse]
    ELSE LET u == UnmarshalResponse(ret.bytes[1])
         IN  IF u.err
             THEN [store |-> FALSE, response |-> ZeroResponse]
             ELSE [store |-> TRUE, response |-> u.response]

\* A SetCacheResponse that drops the entry when the response has no result.
SetCacheResponseDroppingEmpty(map, method, message) ==
    IF message.Result = Absent
    THEN [k \in DOMAIN map \ {method} |-> map[k]]
    ELSE Store(map, method, message)

\* A SetCacheResponse that leaves an entry that exists as it is.
SetCacheResponseKeepingFirst(map, method, message) ==
    IF method \in DOMAIN map THEN map ELSE Store(map, method, message)

\* SetCacheResponse's assignment, the lock held.
SetCacheResponse(map, method, message) == Store(map, method, message)

\* The worker of `method` calls mu.Lock: it takes the writer mutex if that
\* is free, and then the lock itself if no reader holds it.
LockPc(m) ==
    IF ~WriterMutexFree(m) THEN "lockw"
    ELSE IF ReadersGone(m) THEN "locked" ELSE "drain"

Lock(m, method) == IF WriterMutexFree(m) THEN [m EXCEPT !.w = Some(method)] ELSE m

\* Top of the loop: makeRequest and cloneRequest build the request, and
\* callMethod sends it.  A NODE_ENDPOINT that NewRequest rejects ends the
\* cycle before any call.
StartCycle(method) ==
    /\ worker[method].pc = "start"
    /\ worker' = [worker EXCEPT ![method] = IF endpoint THEN AtRest("calling", "") ELSE AtRest("tick", "request")]
    /\ UNCHANGED <<cacheMethods, endpoint, completed, cacheResponse, mu, ticker, client>>

\* A cacheWorker that tries again at once, without <-ticker.C, when its
\* call fails.
RefreshReplyRetrying(method, o) ==
    /\ worker[method].pc = "calling"
    /\ LET resp == callMethod(o)
           r    == CycleResult(resp)
       IN  IF r.store
           THEN /\ worker' = [worker EXCEPT ![method] =
                       WorkerState(LockPc(mu), resp, r.response, "")]
                /\ mu' = Lock(mu, method)
           ELSE /\ worker' = [worker EXCEPT ![method] =
                       IF resp.err # Absent THEN AtRest("start", "")
                       ELSE AtRest("tick", "parse")]
                /\ mu' = mu
    /\ UNCHANGED <<cacheMethods, endpoint, completed, cacheResponse, ticker, client>>

\* A cacheWorker that returns, ending the goroutine, when its call fails.
RefreshReplyOrExit(method, o) ==
    /\ worker[method].pc = "calling"
    /\ LET resp == callMethod(o)
           r    == CycleResult(resp)
       IN  IF r.store
           THEN /\ worker' = [worker EXCEPT ![method] =
                       WorkerState(LockPc(mu), resp, r.response, "")]
                /\ mu' = Lock(mu, method)
           ELSE /\ worker' = [worker EXCEPT ![method] = AtRest("exited", "call")]
                /\ mu' = mu
    /\ UNCHANGED <<cacheMethods, endpoint, completed, cacheResponse, ticker, client>>

\* The node answers the worker's call with outcome o: callMethod returns,
\* and the cycle either ends or enters SetCacheResponse up to mu.Lock.
RefreshReply(method, o) ==
    /\ worker[method].pc = "calling"
    /\ LET resp == callMethod(o)
           r    == CycleResult(resp)
       IN  IF r.store
           THEN /\ worker' = [worker EXCEPT ![method] =
                       WorkerState(LockPc(mu), resp, r.response, "")]
                /\ mu' = Lock(mu, method)
           ELSE /\ worker' = [worker EXCEPT ![method] =
                       AtRest("tick", IF resp.err # Absent THEN "call" ELSE "parse")]
                /\ mu' = mu
    /\ UNCHANGED <<cacheMethods, endpoint, completed, cacheResponse, ticker, client>>

\* The node stops answering the worker's call for good.
RefreshHang(method) ==
    /\ worker[method].pc = "calling"
    /\ worker' = [worker EXCEPT ![method] = [@ EXCEPT !.pc = "hung"]]
    /\ UNCHANGED <<cacheMethods, endpoint, completed, cacheResponse, mu, ticker, client>>

\* mu.Lock, waiting for the writer mutex: the other writer has released it.
LockWriterMutex(method) ==
    /\ worker[method].pc = "lockw"
    /\ WriterMutexFree(mu)
    /\ worker' = [worker EXCEPT ![method] = [@ EXCEPT !.pc = LockPc(mu)]]
    /\ mu' = Lock(mu, method)
    /\ UNCHANGED <<cacheMethods, endpoint, completed, cacheResponse, ticker, client>>

\* mu.Lock, waiting for the readers: the last one has left.
LockReadersGone(method) ==
    /\ worker[method].pc = "drain"
    /\ ReadersGone(mu)
    /\ worker' = [worker EXCEPT ![method] = [@ EXCEPT !.pc = "locked"]]
    /\ UNCHANGED <<cacheMethods, endpoint, completed, cacheResponse, mu, ticker, client>>

\* SetCacheResponse with the lock held: the assignment and the deferred
\* mu.Unlock, which lets the sleeping readers in.  The cycle is over.
\* (`since` of a client inside GetCacheResponse for this method notes the
\* write, and `completed` the cycle.)
StoreAndUnlock(method) ==
    /\ worker[method].pc = "locked"
    /\ cacheResponse' = SetCacheResponse(cacheResponse, method, worker[method].jsonRPCResponse)
    /\ mu' = Unlock(mu)
    /\ worker' = [worker EXCEPT ![method] = AtRest("tick", "stored")]
    /\ client' = [c \in DOMAIN client |->
           LET cl  == client[c]
               in  == cl.pc \in {"rblocked", "rlocked"} /\ cl.message.Method = method
               cl2 == IF in THEN [cl EXCEPT !.since = @ \cup {worker[method].jsonRPCResponse}]
                      ELSE cl
           IN  IF c \in mu.blocked THEN [cl2 EXCEPT !.pc = "rlocked"] ELSE cl2]
    /\ completed' = [completed EXCEPT ![method] =
           Some(UnmarshalResponse(worker[method].resp.bytes[1]).response)]
    /\ UNCHANGED <<cacheMethods, endpoint, ticker>>

\* <-ticker.C: the worker takes the buffered tick and loops.
AwaitTick(method) ==
    /\ worker[method].pc = "tick"
    /\ ticker[method] = 1
    /\ ticker' = [ticker EXCEPT ![method] = 0]
    /\ worker' = [worker EXCEPT ![method] = AtRest("start", "")]
    /\ UNCHANGED <<cacheMethods, endpoint, completed, cacheResponse, mu, client>>

\* The ticker fires: the tick is buffered in ticker.C (a tick that finds
\* the buffer full is dropped, which changes nothing).
Tick(method) ==
    /\ ticker[method] = 0
    /\ ticker' = [ticker EXCEPT ![method] = 1]
    /\ UNCHANGED <<cacheMethods, endpoint, completed, cacheResponse, mu, worker, client>>

(***************************************************************************)
(* Specifications.                                                         *)
(***************************************************************************)

\* One registered method, one request at a time, every request body and
\* every outcome of a call to the node.  (With one worker no writer ever
\* waits for another, so LockWriterMutex is never enabled and is left to
\* ConcNext.)
OneMethod == {"eth_gasPrice"}

OneClient == {"c1"}

Init == NewNodeCache(OneMethod, OneClient)

Next ==
    \/ \E method \in OneMethod : StartCycle(method)
    \/ \E method \in OneMethod, o \in NodeOutcomes : RefreshReply(method, o)
    \/ \E method \in OneMethod : RefreshHang(method)
    \/ \E method \in OneMethod : LockReadersGone(method)
    \/ \E method \in OneMethod : StoreAndUnlock(method)
    \/ \E method \in OneMethod : AwaitTick(method)
    \/ \E method \in OneMethod : Tick(method)
    \/ \E c \in OneClient, body \in RequestBodies, readOK \in BOOLEAN :
           HandleRequest(c, body, readOK)
    \/ \E c \in OneClient : GetCacheResponse(c)
    \/ \E c \in OneClient, o \in NodeOutcomes : ForwardReply(c, o)
    \/ \E c \in OneClient : ForwardHang(c)
    \/ \E c \in OneClient : Finish(c)

Spec == Init /\ [][Next]_vars

\* Two registered methods and two requests at a time, so that writers meet
\* writers and readers meet readers on mu.  The requests all ask for one
\* cached method.
TwoMethods == {"eth_gasPrice", "eth_blockNumber"}

TwoClients == {"c1", "c2"}

ConcBodies == {RequestObject(Some(MaxId), Some("eth_gasPrice"))}

\* For a worker the node fails in every way or gives one of two results.
ConcRefreshOutcomes ==
    {o \in NodeOutcomes : o.body.kind = "object" => o.body.result # Absent}

\* For a forwarded request the node fails or gives one result.
ConcForwardOutcomes ==
    {o \in NodeOutcomes : o.doErr \/ o.body.result = Some("0x1")}

ConcInit == NewNodeCache(TwoMethods, TwoClients)

ConcNext ==
    \/ \E method \in TwoMethods : StartCycle(method)
    \/ \E method \in TwoMethods, o \in ConcRefreshOutcomes : RefreshReply(method, o)
    \/ \E method \in TwoMethods : RefreshHang(method)
    \/ \E method \in TwoMethods : LockWriterMutex(method)
    \/ \E method \in TwoMethods : LockReadersGone(method)
    \/ \E method \in TwoMethods : StoreAndUnlock(method)
    \/ \E method \in TwoMethods : AwaitTick(method)
    \/ \E method \in TwoMethods : Tick(method)
    \/ \E c \in TwoClients, body \in ConcBodies, readOK \in BOOLEAN :
           HandleRequest(c, body, readOK)
    \/ \E c \in TwoClients : GetCacheResponse(c)
    \/ \E c \in TwoClients, o \in ConcForwardOutcomes : ForwardReply(c, o)
    \/ \E c \in TwoClients : ForwardHang(c)
    \/ \E c \in TwoClients : Finish(c)

ConcSpec == ConcInit /\ [][ConcNext]_vars

\* Spec with what the Go scheduler, the ticker and sync.RWMutex guarantee: a
\* goroutine that can run does run, the ticker keeps firing, a reader or a
\* writer that the lock admits goes in, and a call the node answers
\* returns.  Nothing makes a request arrive, and nothing makes the node
\* answer a call it has left hanging: http.Client{} sets no Timeout and the
\* requests carry no deadline, so no step of the program ends such a call.
Fairness ==
    /\ \A method \in OneMethod :
           /\ WF_vars(StartCycle(method))
           /\ WF_vars(\E o \in NodeOutcomes : RefreshReply(method, o))
           /\ WF_vars(LockReadersGone(method))
           /\ WF_vars(StoreAndUnlock(method))
           /\ WF_vars(AwaitTick(method))
           /\ WF_vars(Tick(method))
    /\ \A c \in OneClient :
           /\ WF_vars(GetCacheResponse(c))
           /\ WF_vars(\E o \in NodeOutcomes : ForwardReply(c, o))

FairSpec == Spec /\ Fairness

\* Two workers and one request at a time, to see what one worker can do to
\* the other.  For a worker the node fails in every way or gives one result.
IndepRefreshOutcomes ==
    {o \in NodeOutcomes : o.body.kind = "object" => o.body.result = Some("0x1")}

IndepInit == NewNodeCache(TwoMethods, OneClient)

IndepNext ==
    \/ \E method \in TwoMethods : StartCycle(method)
    \/ \E method \in TwoMethods, o \in IndepRefreshOutcomes : RefreshReply(method, o)
    \/ \E method \in TwoMethods : RefreshHang(method)
    \/ \E method \in TwoMethods : LockWriterMutex(method)
    \/ \E method \in TwoMethods : LockReadersGone(method)
    \/ \E method \in TwoMethods : StoreAndUnlock(method)
    \/ \E method \in TwoMethods : AwaitTick(method)
    \/ \E method \in TwoMethods : Tick(method)
    \/ \E c \in OneClient, body \in ConcBodies, readOK \in BOOLEAN :
           HandleRequest(c, body, readOK)
    \/ \E c \in OneClient : GetCacheResponse(c)
    \/ \E c \in OneClient, o \in ConcForwardOutcomes : ForwardReply(c, o)
    \/ \E c \in OneClient : ForwardHang(c)
    \/ \E c \in OneClient : Finish(c)

\* As Fairness, for two workers.  A writer that sleeps on rw.w gets it: a
\* sync.Mutex hands the lock to a waiter that has slept for a millisecond
\* (starvation mode), and the other worker comes back for it only after a
\* call to the node.  Nothing is assumed of requests beyond the lookup,
\* and nothing makes the node answer a call it has left hanging.
IndepFairness ==
    /\ \A method \in TwoMethods :
           /\ WF_vars(StartCycle(method))
           /\ WF_vars(\E o \in IndepRefreshOutcomes : RefreshReply(method, o))
           /\ SF_vars(LockWriterMutex(method))
           /\ WF_vars(LockReadersGone(method))
           /\ WF_vars(StoreAndUnlock(method))
           /\ WF_vars(AwaitTick(method))
           /\ WF_vars(Tick(method))
    /\ \A c \in OneClient : WF_vars(GetCacheResponse(c))

IndepFairSpec == IndepInit /\ [][IndepNext]_vars /\ IndepFairness

\* One worker and two requests at a time for its method, with every id a
\* caller may send, so that lookups with different ids meet.
PairBodies == {RequestObject(Some(i), Some("eth_gasPrice")) : i \in CallerIds}

PairInit == NewNodeCache(OneMethod, TwoClients)

PairNext ==
    \/ \E method \in OneMethod : StartCycle(method)
    \/ \E method \in OneMethod, o \in ConcRefreshOutcomes : RefreshReply(method, o)
    \/ \E method \in OneMethod : RefreshHang(method)
    \/ \E method \in OneMethod : LockReadersGone(method)
    \/ \E method \in OneMethod : StoreAndUnlock(method)
    \/ \E method \in OneMethod : AwaitTick(method)
    \/ \E method \in OneMethod : Tick(method)
    \/ \E c \in TwoClients, body \in PairBodies, readOK \in BOOLEAN :
           HandleRequest(c, body, readOK)
    \/ \E c \in TwoClients : GetCacheResponse(c)
    \/ \E c \in TwoClients, o \in ConcForwardOutcomes : ForwardReply(c, o)
    \/ \E c \in TwoClients : ForwardHang(c)
    \/ \E c \in TwoClients : Finish(c)

PairSpec == PairInit /\ [][PairNext]_vars

(***************************************************************************)
(* Properties.                                                             *)
(***************************************************************************)

\* The request of cl has been answered from the cache.
Hit(cl) == cl.pc = "done" /\ cl.looked /\ cl.got # Absent

\* The request of cl parsed and the lookup found no entry for its method.
Miss(cl) == cl.pc = "done" /\ cl.looked /\ cl.got = Absent

\* C1: the response of a cache hit carries the id of the request: the id
\* member of the returned object is the id member of the request body.
C1_HitEchoesId ==
    \A c \in DOMAIN client :
        Hit(client[c]) =>
            /\ client[c].ret.bytes # Absent
            /\ client[c].ret.bytes[1].id = client[c].body.id

\* C2: a request that parsed and whose method had an entry when the lookup
\* was called makes no call to the node at any point and returns bytes and
\* no error, whatever the node is doing.
C2_HitCallsNothing ==
    \A c \in DOMAIN client :
        client[c].atStart # Absent =>
            /\ client[c].calls = 0
            /\ client[c].sent = Absent
            /\ client[c].pc \notin {"calling", "hung"}
            /\ client[c].pc = "done" =>
                   client[c].ret.err = Absent /\ client[c].ret.bytes # Absent

\* A request served from the cache while the worker's call to the node hangs.
C2_Witness ==
    \E c \in DOMAIN client :
        /\ Hit(client[c])
        /\ client[c].atStart # Absent
        /\ \E m \in cacheMethods : worker[m].pc = "hung"

\* C3 as stated: a request whose lookup found no entry has made exactly one
\* call to the node when HandleRequest returns.
C3_MissCallsOnce ==
    \A c \in DOMAIN client : Miss(client[c]) => client[c].calls = 1

\* C3, amended: a request whose lookup found no entry has made exactly one
\* call to the node when HandleRequest returns, unless the outbound request
\* could not be built (NODE_ENDPOINT is no URL), and then it has made none
\* and returns that error; no request makes more than one call, also when
\* the call fails.
C3_MissCallsOnceIfBuilt ==
    \A c \in DOMAIN client :
        /\ client[c].calls <= 1
        /\ Miss(client[c]) =>
               IF endpoint
               THEN client[c].calls = 1 /\ client[c].sent = Some(client[c].body)
               ELSE client[c].calls = 0 /\ client[c].ret = Return(Absent, Error("newrequest", 0))

\* A request for a registered method without an entry whose one call failed.
C3_Witness ==
    \E c \in DOMAIN client :
        /\ Miss(client[c])
        /\ client[c].message.Method \in cacheMethods
        /\ client[c].calls = 1
        /\ client[c].ret.err # Absent

\* C4: no step of HandleRequest (a step that changes a request goroutine
\* and no worker) changes the map.
C4_HandlerLeavesCache ==
    [][(client' # client /\ worker' = worker) => cacheResponse' = cacheResponse]_vars

\* A forward for a registered method has returned bytes and the method has
\* no entry.
C4_Witness ==
    \E c \in DOMAIN client :
        /\ client[c].pc = "done"
        /\ client[c].calls = 1
        /\ client[c].ret.bytes # Absent
        /\ client[c].message.Method \in cacheMethods
        /\ client[c].message.Method \notin DOMAIN cacheResponse

\* The worker of m is inside SetCacheResponse.
Storing(m) == worker[m].pc \in {"lockw", "drain", "locked"}

\* C5: only a cycle whose request was built and whose call returned bytes
\* that unmarshal enters SetCacheResponse, and the map changes in no other
\* way than by a worker that holds the lock assigning its own key; so a
\* cycle that fails changes no entry.
C5_FailedCycleWritesNothing ==
    /\ [](\A m \in cacheMethods :
              Storing(m) =>
                  /\ endpoint
                  /\ worker[m].resp.err = Absent
                  /\ worker[m].resp.bytes # Absent
                  /\ ~UnmarshalResponse(worker[m].resp.bytes[1]).err)
    /\ [][cacheResponse' # cacheResponse =>
              \E m \in cacheMethods :
                  /\ worker[m].pc = "locked"
                  /\ worker'[m].pc = "tick"
                  /\ cacheResponse' = Store(cacheResponse, m, worker[m].jsonRPCResponse)]_vars

\* Cycles have just failed, one at the call and one at the unmarshal, and
\* one of the two methods has its entry from before.
C5_Witness ==
    \E m1, m2 \in cacheMethods :
        /\ m1 # m2
        /\ worker[m1].pc = "tick" /\ worker[m1].last = "parse"
        /\ worker[m2].pc = "tick" /\ worker[m2].last = "call"
        /\ m1 \in DOMAIN cacheResponse
        /\ m2 \notin DOMAIN cacheResponse

\* C7: a key of the map stays a key of the map, and a lookup called when
\* the method had an entry finds an entry.
C7_EntriesStay ==
    /\ [][\A k \in AllMethods :
              k \in DOMAIN cacheResponse => k \in DOMAIN cacheResponse']_vars
    /\ [](\A c \in DOMAIN client :
              (client[c].looked /\ client[c].atStart # Absent) => client[c].got # Absent)

\* A hit for a method whose worker's latest cycle failed.
C7_Witness ==
    \E c \in DOMAIN client :
        /\ Hit(client[c])
        /\ client[c].atStart # Absent
        /\ worker[client[c].message.Method].pc = "tick"
        /\ worker[client[c].message.Method].last = "call"

\* C6: a worker whose call to the node is not left hanging starts another
\* cycle, however the call and the cycle end; and a worker that has entered
\* SetCacheResponse with a response gets its method's entry written.
C6_WorkerKeepsCycling ==
    \A m \in OneMethod :
        /\ (worker[m].pc = "calling") ~> (worker[m].pc \in {"start", "hung"})
        /\ (worker[m].pc \in {"lockw", "drain", "locked", "tick"}) ~> (worker[m].pc = "start")
        /\ Storing(m) ~> (m \in DOMAIN cacheResponse)

\* A worker is about to start a cycle after one that failed at the call.
C6_Witness ==
    \E m \in cacheMethods :
        /\ worker[m].pc = "tick"
        /\ worker[m].last = "call"
        /\ ticker[m] = 1

\* C9: a worker whose call to the node hangs starts a later cycle all the
\* same, and a HandleRequest whose forwarded call hangs returns all the same.
C9_HangDoesNotStall ==
    /\ \A m \in OneMethod : (worker[m].pc = "hung") ~> (worker[m].pc = "start")
    /\ \A c \in OneClient : (client[c].pc = "hung") ~> (client[c].pc = "done")

\* C8: the map behaves as an atomic register per method.  A reader that
\* holds the read lock reads a map no writer is assigning to, and what it
\* reads, before and after the read, is the entry its method had when
\* GetCacheResponse was called or one stored since; if there was an entry
\* then, the read finds one.
C8_AtomicRegister ==
    \A c \in DOMAIN client :
        LET cl  == client[c]
            ok  == {cl.atStart} \cup {Some(r) : r \in cl.since}
        IN  /\ cl.pc = "rlocked" =>
                   ~MapBusy /\ Lookup(cacheResponse, cl.message.Method) \in ok
            /\ cl.looked => cl.got \in ok
            /\ (cl.looked /\ cl.atStart # Absent) => cl.got # Absent

\* A lookup that had to wait for a write of its method has read the value
\* of that write, which replaced an older one.
C8_Witness ==
    \E c \in DOMAIN client :
        /\ client[c].looked
        /\ client[c].atStart # Absent
        /\ client[c].since # {}
        /\ client[c].got # client[c].atStart

\* C10 as stated: no SetCacheResponse waits for another SetCacheResponse to
\* release the lock, and no GetCacheResponse waits while another
\* GetCacheResponse holds the lock.
C10_NeverWaitForEachOther ==
    /\ \A m \in cacheMethods : worker[m].pc # "lockw"
    /\ \A c \in DOMAIN client : client[c].pc = "rblocked" => mu.readers = {}

\* C10, amended: lookups share the lock, and a lookup waits only while a
\* writer is inside SetCacheResponse (it has called Lock and not yet
\* returned from Unlock); writes exclude each other, for distinct methods
\* too, and the writer that keeps the others waiting is inside
\* SetCacheResponse, itself waiting only for the lookups holding the lock.  Who holds or
\* awaits the lock is inside SetCacheResponse or GetCacheResponse, never in
\* a call to the node or a wait for the tick.
C10_WaitsOnlyForWriters ==
    /\ \A c \in DOMAIN client :
           /\ client[c].pc = "rblocked" <=> c \in mu.blocked
           /\ client[c].pc = "rlocked" <=> c \in mu.readers
           /\ client[c].pc = "rblocked" => mu.w # Absent
    /\ \A m \in cacheMethods :
           /\ worker[m].pc \in {"drain", "locked"} <=> mu.w = Some(m)
           /\ worker[m].pc = "lockw" => mu.w # Some(m)
           /\ worker[m].pc = "locked" => mu.readers = {}

\* Two lookups hold the lock together while a write waits for them and the
\* write of the other method waits for that write.
C10_Witness ==
    /\ Cardinality(mu.readers) = 2
    /\ \E m1, m2 \in cacheMethods : worker[m1].pc = "drain" /\ worker[m2].pc = "lockw"

\* C11: each method's entry is at all times the parsed response of the
\* method's latest cycle that completed with success (no entry before the
\* first).  The cycles of one method run one after the other on the method's
\* one goroutine, so while a cycle is inside SetCacheResponse with its
\* response no other cycle of that method completes, and the entry changes
\* only when the method's own worker stores.
C11_EntryIsLatestRefresh ==
    /\ [](\A m \in DOMAIN completed : Lookup(cacheResponse, m) = completed[m])
    /\ [][\A m \in cacheMethods :
              /\ (Storing(m) /\ worker'[m].pc \in {"lockw", "drain", "locked"}) =>
                     completed'[m] = completed[m]
              /\ Lookup(cacheResponse', m) # Lookup(cacheResponse, m) =>
                     /\ worker[m].pc = "locked"
                     /\ worker'[m].pc = "tick"
                     /\ Lookup(cacheResponse', m) =
                            Some(UnmarshalResponse(worker[m].resp.bytes[1]).response)]_vars

\* A cycle has just replaced the entry that a request, still being served,
\* saw when it arrived; the other method's worker is in a cycle of its own.
C11_Witness ==
    \E m \in cacheMethods, c \in DOMAIN client :
        /\ worker[m].pc = "tick" /\ worker[m].last = "stored"
        /\ client[c].message.Method = m
        /\ client[c].atStart # Absent
        /\ client[c].atStart # completed[m]
        /\ Lookup(cacheResponse, m) = completed[m]
        /\ \E m2 \in cacheMethods \ {m} : worker[m2].pc \in {"calling", "drain", "locked"}

\* C12: whatever the other worker's calls do (fail in every cycle, hang for
\* ever), a worker that is not itself left hanging by the node starts cycle
\* after cycle, and each of its cycles that got a response that parses
\* writes the method's entry; and a worker that is in a call to the node,
\* or waits for the tick, does not hold the writer mutex of mu.
C12_WorkersIndependent ==
    /\ [](\A m \in cacheMethods :
              worker[m].pc \in {"start", "calling", "hung", "tick"} => mu.w # Some(m))
    /\ \A m \in TwoMethods :
           /\ (worker[m].pc = "calling") ~> (worker[m].pc \in {"start", "hung"})
           /\ (worker[m].pc \in {"lockw", "drain", "locked", "tick"}) ~> (worker[m].pc = "start")
           /\ Storing(m) ~>
                  (worker[m].last = "stored" /\ Lookup(cacheResponse, m) = completed[m])

\* One worker's call hangs and it has never stored; the other has just
\* stored a response, not for the first time in that worker's hang.
C12_Witness ==
    \E a, b \in cacheMethods :
        /\ a # b
        /\ worker[a].pc = "hung"
        /\ a \notin DOMAIN cacheResponse
        /\ worker[b].pc = "tick" /\ worker[b].last = "stored"
        /\ b \in DOMAIN cacheResponse

\* The call with outcome o completed with status 200: the connection gave
\* the response, status 200, and its body to the end.
Completed200(o) == ~o.doErr /\ o.status = StatusOK /\ ~o.readErr

\* C13: a HandleRequest that forwarded returns bytes exactly if the call
\* completed with status 200, and then the bytes are the node's and there
\* is no error; after another status it returns the error with that status
\* code, after a failure of the transport (in client.Do or while the body is
\* read) an error, and no bytes in both cases, whatever the map holds.
C13_ForwardRelaysOutcome ==
    \A c \in DOMAIN client :
        (client[c].pc = "done" /\ client[c].calls = 1) =>
            LET o   == client[c].reply[1]
                ret == client[c].ret
            IN  /\ client[c].reply # Absent
                /\ ret.bytes # Absent <=> Completed200(o)
                /\ ret.bytes # Absent <=> ret.err = Absent
                /\ Completed200(o) => ret.bytes = Some(o.body)
                /\ (~o.doErr /\ o.status # StatusOK) => ret.err = Error("status", o.status)
                /\ (o.doErr \/ o.readErr) =>
                       ret.err \in {Error("transport", 0), Error("readbody", 0)}

\* A request that does not parse, naming a method that has an entry, was
\* forwarded and came back with the node's status 500 as an error.
C13_Witness ==
    \E c \in DOMAIN client :
        /\ client[c].pc = "done"
        /\ client[c].calls = 1
        /\ client[c].body = MistypedRequest("eth_gasPrice")
        /\ "eth_gasPrice" \in DOMAIN cacheResponse
        /\ client[c].reply # Absent
        /\ client[c].reply[1].status = 500
        /\ client[c].ret = Return(Absent, Error("status", 500))

\* HandleRequest has read the body of cl's request and json.Unmarshal
\* rejected it.
Unparsed(cl) ==
    /\ cl.pc # "idle"
    /\ cl.ret.err # Error("inbound", 0)
    /\ cl.body.kind # "object"

\* C14 as stated: a request whose body does not parse never reaches the
\* lookup and is forwarded to the node.
C14_UnparsedIsForwarded ==
    \A c \in DOMAIN client :
        Unparsed(client[c]) =>
            /\ ~client[c].looked
            /\ client[c].pc \in {"calling", "hung", "done"}
            /\ client[c].calls = 1
            /\ client[c].sent = Some(client[c].body)

\* C14, amended: a request whose body does not parse never reaches the
\* lookup, whatever the map holds, and what it returns is what its one call
\* to the node gave; it is forwarded unless the outbound request cannot be
\* built (NODE_ENDPOINT is no URL), and then HandleRequest returns that
\* error without a call.
C14_UnparsedIsForwardedIfBuilt ==
    \A c \in DOMAIN client :
        Unparsed(client[c]) =>
            /\ ~client[c].looked
            /\ client[c].atStart = Absent
            /\ client[c].pc \in {"calling", "hung", "done"}
            /\ IF endpoint
               THEN /\ client[c].calls = 1
                    /\ client[c].sent = Some(client[c].body)
                    /\ client[c].pc = "done" =>
                           /\ client[c].reply # Absent
                           /\ client[c].ret = callMethod(client[c].reply[1])
               ELSE /\ client[c].calls = 0
                    /\ client[c].pc = "done"
                    /\ client[c].ret = Return(Absent, Error("newrequest", 0))

\* A body with a method the map has an entry for and an id of the wrong
\* type was forwarded, and the node's answer returned.
C14_Witness ==
    \E c \in DOMAIN client :
        /\ Unparsed(client[c])
        /\ client[c].body = MistypedRequest("eth_gasPrice")
        /\ "eth_gasPrice" \in DOMAIN cacheResponse
        /\ client[c].pc = "done"
        /\ client[c].calls = 1
        /\ client[c].ret.bytes # Absent

\* C15: the body of every call HandleRequest makes to the node is the
\* inbound body as it came, parsed or not, and when the call completes with
\* status 200 HandleRequest returns the node's body as it came, its id
\* member included, and no error.
C15_ForwardIsPassthrough ==
    \A c \in DOMAIN client :
        /\ client[c].sent # Absent <=> client[c].calls = 1
        /\ client[c].calls = 1 => client[c].sent = Some(client[c].body)
        /\ (client[c].reply # Absent /\ Completed200(client[c].reply[1])) =>
               /\ client[c].ret = Return(Some(client[c].reply[1].body), Absent)
               /\ client[c].ret.bytes[1].id = client[c].reply[1].body.id

\* A request with id 0 for a method that is not cached went out as it came
\* in, and the node's answer, which echoes another id, came back as it was.
C15_Witness ==
    \E c \in DOMAIN client :
        /\ client[c].pc = "done"
        /\ client[c].body = RequestObject(Some(0), Some("eth_call"))
        /\ client[c].sent = Some(client[c].body)
        /\ client[c].reply # Absent
        /\ client[c].ret.bytes = Some(ResponseObject(Some("2.0"), Some(1), Some("0x2")))

\* C16: the object a cache hit returns has the members jsonrpc, id and
\* result, none missing, and result is the result of the response the
\* method's latest successful cycle stored.
C16_HitHasFullShape ==
    \A c \in DOMAIN client :
        Hit(client[c]) =>
            /\ client[c].ret.bytes # Absent
            /\ client[c].ret.bytes[1].jsonrpc # Absent
            /\ client[c].ret.bytes[1].id # Absent
            /\ client[c].ret.bytes[1].result # Absent
            /\ completed[client[c].message.Method] # Absent
            /\ client[c].ret.bytes[1].result = completed[client[c].message.Method][1].Result

\* The request of cl parsed and names a method outside the registry (or
\* none), and the lookup has returned.
Unregistered(cl) == cl.looked /\ cl.message.Method \notin cacheMethods

\* C17 as stated: the keys of the map are registered methods, and a request
\* for a method outside the registry finds no entry and is forwarded to
\* the node.
C17_UnregisteredIsForwarded ==
    /\ DOMAIN cacheResponse \subseteq cacheMethods
    /\ \A c \in DOMAIN client :
           Unregistered(client[c]) =>
               /\ client[c].got = Absent
               /\ client[c].calls = 1
               /\ client[c].sent = Some(client[c].body)

\* C17, amended: the keys of the map are registered methods and a key's
\* entry changes only when the key's own worker stores; a request for a
\* method outside the registry finds no entry and returns what its one call
\* to the node gave, or, when the outbound request cannot be built
\* (NODE_ENDPOINT is no URL), that error without a call; it never returns
\* the lookup's error.
C17_UnregisteredNeverServed ==
    /\ [](DOMAIN cacheResponse \subseteq cacheMethods)
    /\ [][\A k \in AllMethods \cup {""} :
              Lookup(cacheResponse', k) # Lookup(cacheResponse, k) =>
                  /\ k \in cacheMethods
                  /\ worker[k].pc = "locked"
                  /\ worker'[k].pc = "tick"]_vars
    /\ [](\A c \in DOMAIN client :
              Unregistered(client[c]) =>
                  /\ client[c].got = Absent
                  /\ client[c].pc \in {"calling", "hung", "done"}
                  /\ IF endpoint
                     THEN /\ client[c].calls = 1
                          /\ client[c].sent = Some(client[c].body)
                          /\ client[c].pc = "done" =>
                                 /\ client[c].reply # Absent
                                 /\ client[c].ret = callMethod(client[c].reply[1])
                     ELSE /\ client[c].calls = 0
                          /\ client[c].ret = Return(Absent, Error("newrequest", 0)))

\* The map has an entry, and a request for a method outside the registry
\* has been answered by the node.
C17_Witness ==
    \E c \in DOMAIN client :
        /\ Unregistered(client[c])
        /\ client[c].message.Method = "eth_call"
        /\ client[c].pc = "done"
        /\ client[c].calls = 1
        /\ client[c].ret.bytes # Absent
        /\ DOMAIN cacheResponse = cacheMethods

\* The bytes of cl's request name a registered method.
NamesCacheable(cl) ==
    cl.pc # "idle" /\ cl.body.method \in {Some(m) : m \in cacheMethods}

\* C18 as stated: no call to the node that carries a registered method is
\* made for a request; such calls are the workers' alone.
C18_OnlyWorkersCallForCacheable ==
    \A c \in DOMAIN client : NamesCacheable(client[c]) => client[c].calls = 0

\* C18, amended: a request that names a registered method makes at most one
\* call to the node, and makes one only if its body did not parse or the
\* method had no entry, neither when the lookup was called nor when it
\* read the map; so from the method's first successful cycle on, requests
\* that parse add no call to the worker's.
C18_CallsOnlyBeforeFirstRefresh ==
    \A c \in DOMAIN client :
        NamesCacheable(client[c]) =>
            /\ client[c].calls <= 1
            /\ client[c].calls = 1 =>
                   \/ Unparsed(client[c])
                   \/ /\ client[c].looked
                      /\ client[c].got = Absent
                      /\ client[c].atStart = Absent
            /\ (client[c].atStart # Absent /\ client[c].looked) =>
                   Hit(client[c]) /\ client[c].calls = 0

\* While the worker of a method that has no entry yet is in its call to
\* the node, a request for the method is in a call of its own.
C18_Witness ==
    \E c \in DOMAIN client :
        /\ NamesCacheable(client[c])
        /\ client[c].looked
        /\ client[c].pc = "calling"
        /\ client[c].calls = 1
        /\ worker[client[c].message.Method].pc = "calling"
        /\ client[c].message.Method \notin DOMAIN cacheResponse

\* C19: hits leave the map as the workers made it (each entry is still
\* what the method's latest successful cycle unmarshalled, id and result
\* included), the object a hit returns has the id member of its own
\* request, and of two requests served together with different ids neither
\* gets the other's.
C19_HitsArePrivate ==
    /\ \A m \in DOMAIN completed : Lookup(cacheResponse, m) = completed[m]
    /\ \A c \in DOMAIN client :
           Hit(client[c]) => client[c].ret.bytes[1].id = client[c].body.id
    /\ \A c1, c2 \in DOMAIN client :
           (/\ Hit(client[c1]) /\ Hit(client[c2])
            /\ client[c1].body.id # client[c2].body.id) =>
               client[c1].ret.bytes[1].id # client[c2].body.id

\* C20: a worker starts at the top of its loop, no tick awaited; it issues
\* a call to the node only from the top of the loop, one per pass; and the
\* only way back to the top of the loop, from a cycle that ended in any of
\* the four ways, is to take a tick out of ticker.C.  So a worker's
\* consecutive calls have a consumed tick between them.
C20_OneCallPerTick ==
    /\ \A m \in cacheMethods : worker[m].pc = "start" /\ ticker[m] = 0
    /\ [](\A m \in cacheMethods :
              /\ worker[m].pc = "tick" <=>
                     worker[m].last \in {"request", "call", "parse", "stored"}
              /\ worker[m].last = "request" => ~endpoint)
    /\ [][\A m \in cacheMethods :
              /\ (worker'[m].pc \in {"calling", "hung"} /\ worker[m].pc \notin {"calling", "hung"}) =>
                     worker[m].pc = "start"
              /\ (worker'[m].pc = "start" /\ worker[m].pc # "start") =>
                     /\ worker[m].pc = "tick"
                     /\ ticker[m] = 1
                     /\ ticker'[m] = 0
              /\ worker[m].pc = "start" =>
                     worker'[m].pc \in {"start", "calling", "tick"}
              /\ (worker[m].pc \in {"calling", "hung", "lockw", "drain", "locked"}) =>
                     worker'[m].pc \in {"calling", "hung", "lockw", "drain", "locked", "tick"}]_vars

\* A worker whose earlier cycle stored an entry is in a later call, the
\* tick it took for it gone from ticker.C and the next not yet fired.
C20_Witness ==
    \E m \in cacheMethods :
        /\ worker[m].pc = "calling"
        /\ m \in DOMAIN cacheResponse
        /\ ticker[m] = 0

====
